---- MODULE Spec2Model ----
(***************************************************************************)
(* Model of sync.py: the ICS -> CalDAV one-way calendar mirror.            *)
(*                                                                         *)
(* Text values (identifiers, resource names, titles) are sequences of      *)
(* one-character strings so that concatenation, prefix tests and           *)
(* str.split are computed, not assumed.  Instants are whole epoch seconds. *)
(* The clock advances, and published events disappear, only while the     *)
(* process sleeps between two runs: a run is short with respect to the     *)
(* resolution of the event times.  The feeds and the clock the process     *)
(* starts with are arbitrary.                                              *)
(***************************************************************************)
EXTENDS Integers, Sequences, FiniteSets, TLC

\* Largest instant of the clock.
MaxTime == 2
\* Largest number of events one feed publishes at a time.
MaxFeed == 2

(***************************************************************************)
(* Text helpers                                                            *)
(***************************************************************************)
DigitChars == <<"0", "1", "2", "3", "4", "5", "6", "7", "8", "9">>

RECURSIVE Digits(_)
\* decimal text of a natural number
Digits(n) ==
    IF n < 10 THEN <<DigitChars[n + 1]>>
    ELSE Digits(n \div 10) \o <<DigitChars[(n % 10) + 1]>>

\* str(begin.timestamp()): timestamp() is a float, whole for a whole second,
\* and str of a whole float ends in ".0"
timestamp_str(t) == Digits(t) \o <<".", "0">>

HasPrefix(s, p) == Len(s) >= Len(p) /\ SubSeq(s, 1, Len(p)) = p

Contains(s, c) == \E i \in 1..Len(s) : s[i] = c

RECURSIVE split_first(_)
\* s.split('||')[0]: the text before the first "||", all of s when there is none
split_first(s) ==
    IF Len(s) < 2 THEN s
    ELSE IF s[1] = "|" /\ s[2] = "|" THEN <<>>
    ELSE <<s[1]>> \o split_first(Tail(s))

Max(a, b) == IF a >= b THEN a ELSE b

(***************************************************************************)
(* The environment: settings, feeds, events                                *)
(***************************************************************************)
\* the settings read with getenv_or_raise, in the order they are read
MandatoryVars ==
    <<"REMOTE_URLS", "LOCAL_URL", "LOCAL_CALENDAR_NAME",
      "LOCAL_USERNAME", "LOCAL_PASSWORD">>

\* the title that is never mirrored
IgnoredName == <<"Arvova Dailya">>

\* the ids (tags) of REMOTE_URLS = "url1,a url2,b"
MainTags == << <<"a">>, <<"b">> >>
\* ids where one is a prefix of the other up to the joining "_"
IdTags == << <<"a">>, <<"a", "_", "b">> >>

Ev(uid, name, begin, end, rrule, until, recid) ==
    [uid |-> uid, name |-> name, begin |-> begin, end |-> end,
     rrule |-> rrule, until |-> until, recid |-> recid]

\* Upstream events. rrule: "none" (no RRULE line), "count" (RRULE without
\* UNTIL), "until" (RRULE with UNTIL = until). recid: the event has a
\* RECURRENCE-ID line.
EvPlain == Ev(<<"x">>, <<"m">>, 0, 1, "none", 0, FALSE)
EvUntil == Ev(<<"y">>, <<"m">>, 0, 1, "until", 2, FALSE)
EvCount == Ev(<<"y">>, <<"m">>, 0, 1, "count", 0, TRUE)
EvIgnored == Ev(<<"z">>, IgnoredName, 1, 2, "none", 0, FALSE)

\* what each of the two remote calendars may publish
MainEvents == << {EvPlain, EvUntil, EvIgnored}, {EvCount, EvIgnored} >>

\* Upstream events whose original identifiers may contain the "_" that joins
\* tag and identifier.
IdEventSet ==
    { Ev(<<"c">>, <<"m">>, 1, 2, "none", 0, FALSE),
      Ev(<<"c">>, <<"m">>, 2, 3, "none", 0, TRUE),
      Ev(<<"b", "_", "c">>, <<"m">>, 1, 2, "none", 0, FALSE) }

IdEvents == << IdEventSet, IdEventSet >>

Range(f) == {f[i] : i \in DOMAIN f}

AllVars == Range(MandatoryVars)

FeedsOver(events) == {f \in SUBSET events : Cardinality(f) <= MaxFeed}

Unbound == <<>>

VARIABLES
    environ,          \* os.environ: [vars, SYNC_EVERY, REMOTE_URLS]
    now,              \* arrow.utcnow()
    upstream,         \* what each remote URL serves at present
    mirror,           \* the CalDAV calendar: set of [uid, last]
    pc,               \* position of the process
    error,            \* the exception that ended the process, "none" if none
    settings,         \* the mandatory settings read so far
    remote_calendars, \* self.remote_calendars, in REMOTE_URLS order
    cur,              \* index of the source synchronise is at
    todo,             \* events of the current source still to iterate
    new_uid,          \* the local new_uid of synchronise
    to_delete,        \* events_to_delete still to iterate
    net,              \* history: a network operation has been started
    log,              \* history: the events this run has iterated
    del_reqs,         \* history: the delete requests this run has issued
    failed,           \* history: a save_event of this run raised
    listed,           \* history: identifiers date_search returned for cur
    quiet,            \* history: the last run completed without failure
                      \* and neither feeds nor clock changed since it began
    second,           \* history: value of quiet when this run began
    mirror0           \* history: the mirror when this run began

vars ==
    <<environ, now, upstream, mirror, pc, error, settings, remote_calendars,
      cur, todo, new_uid, to_delete, net, log, del_reqs, failed, listed,
      quiet, second, mirror0>>

run_hist == <<log, del_reqs, failed, listed, second, mirror0>>

NumSources == Len(environ.REMOTE_URLS)
Tag(s) == environ.REMOTE_URLS[s]

InitProcess ==
    /\ mirror = {}
    /\ pc = "setup"
    /\ error = "none"
    /\ settings = <<>>
    /\ remote_calendars = <<>>
    /\ cur = 0
    /\ todo = {}
    /\ new_uid = Unbound
    /\ to_delete = {}
    /\ net = FALSE
    /\ log = {}
    /\ del_reqs = {}
    /\ failed = FALSE
    /\ listed = {}
    /\ quiet = FALSE
    /\ second = FALSE
    /\ mirror0 = {}

Init ==
    /\ environ \in [vars : {AllVars} \cup {AllVars \ {v} : v \in AllVars},
                    SYNC_EVERY : {"unset", "valid", "invalid"},
                    REMOTE_URLS : {MainTags}]
    /\ now \in 0..MaxTime
    /\ upstream \in {u \in [1..Len(MainTags) -> FeedsOver(UNION Range(MainEvents))] :
                        \A s \in 1..Len(MainTags) : u[s] \subseteq MainEvents[s]}
    /\ InitProcess

(***************************************************************************)
(* __main__: reading the settings                                          *)
(***************************************************************************)
\* os.getenv with a default: a missing variable does not raise
getenv_or_default(var) == "value"

\* getenv_or_raise(var): the value is there, or the call raises
getenv_or_raise(var) == IF var \in environ.vars THEN "value" ELSE "raise"

Raise(e) ==
    /\ pc' = "crashed"
    /\ error' = e

\* one getenv_or_raise call of the settings dictionary
GetenvOrRaise ==
    /\ pc = "setup"
    /\ Len(settings) < Len(MandatoryVars)
    /\ LET var == MandatoryVars[Len(settings) + 1] IN
         IF getenv_or_raise(var) = "value"
         THEN /\ settings' = Append(settings, var)
              /\ UNCHANGED <<pc, error>>
         ELSE /\ Raise("unset")
              /\ UNCHANGED settings
    /\ UNCHANGED <<environ, now, upstream, mirror, remote_calendars, cur, todo,
                   new_uid, to_delete, net, quiet>>
    /\ UNCHANGED run_hist

\* arrow.utcnow().dehumanize("in " + sync_every): raises ValueError on a
\* text that is no duration
dehumanize(sync_every) == IF sync_every = "invalid" THEN "raise" ELSE "value"

\* the SYNC_EVERY check before the loop
CheckSyncEvery ==
    /\ pc = "setup"
    /\ Len(settings) = Len(MandatoryVars)
    /\ IF environ.SYNC_EVERY # "unset" /\ dehumanize(environ.SYNC_EVERY) = "raise"
       THEN Raise("sync_every")
       ELSE /\ pc' = "connect"
            /\ UNCHANGED error
    /\ UNCHANGED <<environ, now, upstream, mirror, settings, remote_calendars,
                   cur, todo, new_uid, to_delete, net, quiet>>
    /\ UNCHANGED run_hist

(***************************************************************************)
(* ICSToCalDAV.__init__                                                    *)
(***************************************************************************)
\* DAVClient(...).principal().calendar(name)
Connect ==
    /\ pc = "connect"
    /\ pc' = "fetch"
    /\ net' = TRUE
    /\ UNCHANGED <<environ, now, upstream, mirror, error, settings,
                   remote_calendars, cur, todo, new_uid, to_delete, quiet>>
    /\ UNCHANGED run_hist

\* the store cannot be reached: the exception leaves __init__ and __main__
ConnectFails ==
    /\ pc = "connect"
    /\ Raise("connect")
    /\ net' = TRUE
    /\ UNCHANGED <<environ, now, upstream, mirror, settings,
                   remote_calendars, cur, todo, new_uid, to_delete, quiet>>
    /\ UNCHANGED run_hist

\* ics.Calendar(requests.get(url).text) for the next url of remote_urls
Fetch ==
    /\ pc = "fetch"
    /\ Len(remote_calendars) < NumSources
    /\ remote_calendars' =
           Append(remote_calendars, upstream[Len(remote_calendars) + 1])
    /\ net' = TRUE
    /\ UNCHANGED <<environ, now, upstream, mirror, pc, error, settings,
                   cur, todo, new_uid, to_delete, quiet>>
    /\ UNCHANGED run_hist

\* requests.get or the parse raises: nothing in __init__ or __main__ catches
FetchFails ==
    /\ pc = "fetch"
    /\ Len(remote_calendars) < NumSources
    /\ Raise("fetch")
    /\ net' = TRUE
    /\ UNCHANGED <<environ, now, upstream, mirror, settings,
                   remote_calendars, cur, todo, new_uid, to_delete, quiet>>
    /\ UNCHANGED run_hist

(***************************************************************************)
(* ICSToCalDAV.synchronise                                                 *)
(***************************************************************************)
\* the end of the event alone, whatever its RRULE says
get_event_end_nominal(vevent) == vevent.end

\* the latest of the event's end and the UNTIL of its RRULE, if it has one
get_event_end(vevent) ==
    IF vevent.rrule = "until" THEN Max(vevent.end, vevent.until)
    ELSE vevent.end

\* the identifier without the id of the source
NewUid_NoTag(id, uid, begin) ==
    uid \o <<"|", "|">> \o timestamp_str(begin)

\* the identifier without the start of the occurrence
NewUid_NoStart(id, uid, begin) ==
    id \o <<"_">> \o uid

\* f"{id}_{uid}" + '||' + str(begin.timestamp())
NewUid(id, uid, begin) ==
    id \o <<"_">> \o uid \o <<"|", "|">> \o timestamp_str(begin)

\* f"{id}:{name}"
PrefixedName(id, name) == id \o <<":">> \o name

\* name of the resource the store keeps an event with this UID under
ResourceName(uid) == uid \o <<".", "i", "c", "s">>

\* save_event: a PUT on the resource named after the UID of the body
save_event(calendar, uid, last) ==
    {m \in calendar : m.uid # uid} \cup {[uid |-> uid, last |-> last]}

\* DAVClient.delete(url): removes the resource of that name, if there is one
delete(calendar, target) == {m \in calendar : ResourceName(m.uid) # target}

\* date_search(utcnow()): the UIDs of the stored events that end after now
get_local_events_ids == {m.uid : m \in {r \in mirror : r.last > now}}

\* `break` in the except clause: the rest of the feed is abandoned
after_except_break(rest) == {}

\* the events left to iterate after the except clause (`continue`)
after_except(rest) == rest

\* str(remote_event): the lines of the VEVENT, by property name
event_str(e) ==
    <<"BEGIN:VEVENT">>
    \o (IF e.rrule # "none" THEN <<"RRULE">> ELSE <<>>)
    \o (IF e.recid THEN <<"RECURRENCE-ID">> ELSE <<>>)
    \o <<"DTSTART", "DTEND", "SUMMARY", "UID", "END:VEVENT">>

NotRecurrenceId(line) == line # "RECURRENCE-ID"

\* the re.sub calls of lines 172-178: UID, DTSTART, DTEND and TZID are
\* rewritten in place, the RECURRENCE-ID lines are removed
rewritten(lines) == SelectSeq(lines, NotRecurrenceId)

\* the static VTIMEZONE block of _wrap
vtimezone ==
    <<"BEGIN:VTIMEZONE", "TZID",
      "BEGIN:DAYLIGHT", "TZOFFSETFROM", "RRULE", "DTSTART", "TZNAME",
      "TZOFFSETTO", "END:DAYLIGHT",
      "BEGIN:STANDARD", "TZOFFSETFROM", "RRULE", "DTSTART", "TZNAME",
      "TZOFFSETTO", "END:STANDARD",
      "END:VTIMEZONE">>

\* _wrap(vevent): the event in a VCALENDAR with the VTIMEZONE
wrap(vevent) ==
    <<"BEGIN:VCALENDAR", "VERSION", "PRODID">> \o vtimezone \o vevent
    \o <<"END:VCALENDAR">>

\* save_event calls the try block makes for one event: there is no loop
\* around line 183
SaveAttempts == 1

LogEntry(e, outcome, uid) ==
    [src |-> cur, ev |-> e, outcome |-> outcome, uid |-> uid, at |-> now,
     pos |-> Cardinality(remote_calendars[cur]) - Cardinality(todo) + 1,
     attempts |-> IF outcome \in {"saved", "failed"} THEN SaveAttempts ELSE 0,
     body |-> IF outcome \in {"saved", "failed"}
              THEN wrap(rewritten(event_str(e))) ELSE <<>>]

\* no title is excluded
is_ignored_never(name) == FALSE

\* the test of line 157, negated: the title is the one that is left out
is_ignored(name) == name = IgnoredName

\* entering synchronise: the loop over remote_calendars starts
Synchronise ==
    /\ pc = "fetch"
    /\ Len(remote_calendars) = NumSources
    /\ pc' = "events"
    /\ cur' = 1
    /\ todo' = remote_calendars[1]
    /\ UNCHANGED <<environ, now, upstream, mirror, error, settings,
                   remote_calendars, new_uid, to_delete, net, quiet>>
    /\ UNCHANGED run_hist

\* an event with the ignored title, or one that is over
SkipEvent ==
    /\ pc = "events"
    /\ \E e \in todo :
         /\ is_ignored(e.name) \/ ~(now <= get_event_end(e))
         /\ todo' = todo \ {e}
         /\ log' = log \cup
              {LogEntry(e, IF is_ignored(e.name) THEN "ignored" ELSE "expired",
                        Unbound)}
    /\ UNCHANGED <<environ, now, upstream, mirror, pc, error, settings,
                   remote_calendars, cur, new_uid, to_delete, net, del_reqs,
                   failed, listed, quiet, second, mirror0>>

Renamed(e) == [e EXCEPT !.name = PrefixedName(Tag(cur), e.name)]

\* a live event: title prefixed, UID rewritten, body saved in the store
SaveEvent ==
    /\ pc = "events"
    /\ \E e \in todo :
         /\ ~is_ignored(e.name)
         /\ now <= get_event_end(e)
         /\ remote_calendars' =
              [remote_calendars EXCEPT ![cur] = (@ \ {e}) \cup {Renamed(e)}]
         /\ new_uid' = NewUid(Tag(cur), e.uid, e.begin)
         /\ mirror' = save_event(mirror, new_uid', get_event_end(e))
         /\ todo' = todo \ {e}
         /\ log' = log \cup {LogEntry(e, "saved", new_uid')}
    /\ net' = TRUE
    /\ UNCHANGED <<environ, now, upstream, pc, error, settings, cur,
                   to_delete, del_reqs, failed, listed, quiet, second, mirror0>>

\* save_event raises: the except clause reports and continues
SaveEventFails ==
    /\ pc = "events"
    /\ \E e \in todo :
         /\ ~is_ignored(e.name)
         /\ now <= get_event_end(e)
         /\ remote_calendars' =
              [remote_calendars EXCEPT ![cur] = (@ \ {e}) \cup {Renamed(e)}]
         /\ new_uid' = NewUid(Tag(cur), e.uid, e.begin)
         /\ todo' = after_except(todo \ {e})
         /\ log' = log \cup {LogEntry(e, "failed", new_uid')}
    /\ net' = TRUE
    /\ failed' = TRUE
    /\ UNCHANGED <<environ, now, upstream, mirror, pc, error, settings, cur,
                   to_delete, del_reqs, listed, quiet, second, mirror0>>

\* set(new_uid for e in remote_calendar.events): the generator reads the
\* local new_uid once per event of the feed
remote_events_ids ==
    IF remote_calendars[cur] = {} THEN {} ELSE {new_uid}

\* new_uid was never assigned and the feed is not empty: NameError
RemoteEventsIdsUnbound ==
    /\ pc = "events"
    /\ todo = {}
    /\ remote_calendars[cur] # {}
    /\ new_uid = Unbound
    /\ Raise("NameError")
    /\ UNCHANGED <<environ, now, upstream, mirror, settings,
                   remote_calendars, cur, todo, new_uid, to_delete, net, quiet>>
    /\ UNCHANGED run_hist

\* the two sets and their difference
ListLocal ==
    /\ pc = "events"
    /\ todo = {}
    /\ ~(remote_calendars[cur] # {} /\ new_uid = Unbound)
    /\ LET local_events_ids == {split_first(u) : u \in get_local_events_ids}
       IN  to_delete' = local_events_ids \ remote_events_ids
    /\ listed' = get_local_events_ids
    /\ pc' = "delete"
    /\ net' = TRUE
    /\ UNCHANGED <<environ, now, upstream, mirror, error, settings,
                   remote_calendars, cur, todo, new_uid, log, del_reqs,
                   failed, quiet, second, mirror0>>

\* date_search raises: nothing catches
ListFails ==
    /\ pc = "events"
    /\ todo = {}
    /\ ~(remote_calendars[cur] # {} /\ new_uid = Unbound)
    /\ Raise("list")
    /\ net' = TRUE
    /\ UNCHANGED <<environ, now, upstream, mirror, settings,
                   remote_calendars, cur, todo, new_uid, to_delete, quiet>>
    /\ UNCHANGED run_hist

DeleteRequest(id) == [src |-> cur, target |-> ResourceName(id)]

\* one local_client.delete of the loop over events_to_delete
DeleteEvent ==
    /\ pc = "delete"
    /\ \E local_event_id \in to_delete :
         /\ mirror' = delete(mirror, ResourceName(local_event_id))
         /\ del_reqs' = del_reqs \cup {DeleteRequest(local_event_id)}
         /\ to_delete' = to_delete \ {local_event_id}
    /\ net' = TRUE
    /\ UNCHANGED <<environ, now, upstream, pc, error, settings,
                   remote_calendars, cur, todo, new_uid, log, failed, listed,
                   quiet, second, mirror0>>

\* local_client.delete raises: nothing catches
DeleteFails ==
    /\ pc = "delete"
    /\ \E local_event_id \in to_delete :
         del_reqs' = del_reqs \cup {DeleteRequest(local_event_id)}
    /\ Raise("delete")
    /\ net' = TRUE
    /\ UNCHANGED <<environ, now, upstream, mirror, settings,
                   remote_calendars, cur, todo, new_uid, to_delete, log,
                   failed, listed, quiet, second, mirror0>>

\* the deletions of this source are done: next source, or synchronise returns
NextSource ==
    /\ pc = "delete"
    /\ to_delete = {}
    /\ IF cur < NumSources
       THEN /\ cur' = cur + 1
            /\ todo' = remote_calendars[cur + 1]
            /\ pc' = "events"
            /\ listed' = {}
       ELSE /\ pc' = "ran"
            /\ UNCHANGED <<cur, todo, listed>>
    /\ UNCHANGED <<environ, now, upstream, mirror, error, settings,
                   remote_calendars, new_uid, to_delete, net, log, del_reqs,
                   failed, quiet, second, mirror0>>

(***************************************************************************)
(* __main__: the loop                                                      *)
(***************************************************************************)
\* after synchronise: break when SYNC_EVERY is unset, sleep otherwise
AfterRun ==
    /\ pc = "ran"
    /\ pc' = IF environ.SYNC_EVERY = "unset" THEN "exit" ELSE "sleep"
    /\ quiet' = ~failed
    /\ UNCHANGED <<environ, now, upstream, mirror, error, settings,
                   remote_calendars, cur, todo, new_uid, to_delete, net>>
    /\ UNCHANGED run_hist

\* the engine built for the first run is used again: nothing is fetched
NextRun_Reuse ==
    /\ pc = "sleep"
    /\ pc' = "fetch"
    /\ cur' = 0
    /\ todo' = {}
    /\ new_uid' = Unbound
    /\ to_delete' = {}
    /\ log' = {}
    /\ del_reqs' = {}
    /\ failed' = FALSE
    /\ listed' = {}
    /\ second' = quiet
    /\ mirror0' = mirror
    /\ UNCHANGED <<environ, now, upstream, mirror, error, settings,
                   remote_calendars, net, quiet>>

\* the sleep is over: a new ICSToCalDAV is built
NextRun ==
    /\ pc = "sleep"
    /\ pc' = "connect"
    /\ remote_calendars' = <<>>
    /\ cur' = 0
    /\ todo' = {}
    /\ new_uid' = Unbound
    /\ to_delete' = {}
    /\ log' = {}
    /\ del_reqs' = {}
    /\ failed' = FALSE
    /\ listed' = {}
    /\ second' = quiet
    /\ mirror0' = mirror
    /\ UNCHANGED <<environ, now, upstream, mirror, error, settings, net, quiet>>

\* time passes while the process sleeps
Tick ==
    /\ pc = "sleep"
    /\ now < MaxTime
    /\ now' = now + 1
    /\ quiet' = FALSE
    /\ UNCHANGED <<environ, upstream, mirror, pc, error, settings,
                   remote_calendars, cur, todo, new_uid, to_delete, net>>
    /\ UNCHANGED run_hist

\* an event disappears from a remote calendar
UpstreamRemoves ==
    /\ pc = "sleep"
    /\ \E s \in 1..NumSources :
         \E e \in upstream[s] : upstream' = [upstream EXCEPT ![s] = @ \ {e}]
    /\ quiet' = FALSE
    /\ UNCHANGED <<environ, now, mirror, pc, error, settings,
                   remote_calendars, cur, todo, new_uid, to_delete, net>>
    /\ UNCHANGED run_hist

Next ==
    \/ GetenvOrRaise
    \/ CheckSyncEvery
    \/ Connect
    \/ ConnectFails
    \/ Fetch
    \/ FetchFails
    \/ Synchronise
    \/ SkipEvent
    \/ SaveEvent
    \/ SaveEventFails
    \/ RemoteEventsIdsUnbound
    \/ ListLocal
    \/ ListFails
    \/ DeleteEvent
    \/ DeleteFails
    \/ NextSource
    \/ AfterRun
    \/ NextRun
    \/ Tick
    \/ UpstreamRemoves

Spec == Init /\ [][Next]_vars

(***************************************************************************)
(* A single run over feeds whose identifiers and ids contain "_"           *)
(***************************************************************************)
InitId ==
    /\ environ = [vars |-> AllVars, SYNC_EVERY |-> "unset", REMOTE_URLS |-> IdTags]
    /\ now = 0
    /\ upstream \in {u \in [1..Len(IdTags) -> FeedsOver(UNION Range(IdEvents))] :
                        \A s \in 1..Len(IdTags) : u[s] \subseteq IdEvents[s]}
    /\ InitProcess

NextId ==
    \/ GetenvOrRaise
    \/ CheckSyncEvery
    \/ Connect
    \/ Fetch
    \/ Synchronise
    \/ SaveEvent
    \/ ListLocal
    \/ DeleteEvent
    \/ NextSource
    \/ AfterRun

SpecId == InitId /\ [][NextId]_vars

(***************************************************************************)
(* Properties                                                              *)
(***************************************************************************)
\* effective end: max(nominal end, UNTIL) with an RRULE that has UNTIL,
\* the nominal end otherwise
EffectiveEnd(e) ==
    IF e.rrule = "until" /\ e.until > e.end THEN e.until ELSE e.end

IsLiveUpstream(e) == e.name # IgnoredName /\ now <= EffectiveEnd(e)

ResolvedIdentifier(tag, e) ==
    tag \o <<"_">> \o e.uid \o <<"|", "|">> \o Digits(e.begin) \o <<".", "0">>

\* ResolvedIdentifiers of the live, non-excluded events source s publishes
LiveIds(s) == {ResolvedIdentifier(Tag(s), e) : e \in {v \in upstream[s] : IsLiveUpstream(v)}}

CarriesTag(text, s) == HasPrefix(text, Tag(s) \o <<"_">>)

MirrorUids == {m.uid : m \in mirror}

\* identifiers of source s that a listing of the mirror returns
MirroredIds(s) == {u \in get_local_events_ids : CarriesTag(u, s)}

Submitted == {l \in log : l.outcome \in {"saved", "failed"}}

LoopDone(s) == s <= cur /\ (s < cur \/ todo = {})

\* C1: when a run in which no store operation failed has completed, then for
\* every source the ResolvedIdentifier of each of its live, non-excluded
\* events is in the mirror, and each identifier of the source that a listing
\* of the mirror returns is the ResolvedIdentifier of such an event.
C1_Converges ==
    (pc = "ran" /\ ~failed) =>
        \A s \in 1..NumSources :
            /\ LiveIds(s) \subseteq MirrorUids
            /\ MirroredIds(s) \subseteq LiveIds(s)

\* C2: a run that follows a completed run, with feeds and clock unchanged,
\* adds no entry to the mirror and issues no delete request.
C2_Idempotent ==
    second => (MirrorUids \subseteq {m.uid : m \in mirror0} /\ del_reqs = {})

\* C3: when the deletions of a source are done, the listed events that are
\* gone from the mirror are exactly the listed events of that source that
\* are not ResolvedIdentifiers of its live upstream events.
C3_DeletesDifference ==
    (pc = "delete" /\ to_delete = {}) =>
        (listed \ MirrorUids) = ({u \in listed : CarriesTag(u, cur)} \ LiveIds(cur))

\* C4: once the loop over a source's events is over, every live, non-excluded
\* event of a source one of whose submissions failed has been submitted,
\* wherever in the iteration the failure happened.
C4_FailureIsolated ==
    \A s \in 1..NumSources :
        (LoopDone(s) /\ \E l \in log : l.src = s /\ l.outcome = "failed") =>
            \A e \in upstream[s] :
                IsLiveUpstream(e) => \E l \in Submitted : l.src = s /\ l.ev = e

C4_Witness ==
    /\ pc = "ran"
    /\ \E l1, l2 \in log :
         /\ l1.src = l2.src
         /\ l1.outcome = "failed" /\ l1.pos = 1
         /\ l2.outcome = "saved" /\ l2.pos = 2

\* C5: a fetch that fails does not end the process: the source is skipped
\* and the run goes on.
C5_FetchContained == ~(pc = "crashed" /\ error = "fetch")

\* C6: an event is submitted only at instants not after its effective end,
\* and an event that is not excluded by name is submitted at every such
\* instant at which it is iterated.
C6_LivenessBoundary ==
    \A l \in log :
        /\ l \in Submitted => l.at <= EffectiveEnd(l.ev)
        /\ (l.ev.name # IgnoredName /\ l.at <= EffectiveEnd(l.ev)) => l \in Submitted

C6_Witness ==
    /\ \E l \in log : /\ l.ev.rrule = "until"
                      /\ l.ev.end < l.at /\ l.at <= l.ev.until
                      /\ l.outcome = "saved"
    /\ \E l \in log : /\ l.ev.rrule = "none" /\ l.ev.name # IgnoredName
                      /\ l.ev.end < l.at
                      /\ l.outcome = "expired"

\* C7 as stated: events of two sources with different tags never get the
\* same ResolvedIdentifier.
C7_UniqueAcrossSources ==
    \A l1, l2 \in Submitted :
        Tag(l1.src) # Tag(l2.src) => l1.uid # l2.uid

\* C7 amended: events of two sources with different tags, neither of whose
\* original identifiers contains "_", never get the same ResolvedIdentifier.
C7_UniqueWithoutDelimiter ==
    \A l1, l2 \in Submitted :
        ( /\ Tag(l1.src) # Tag(l2.src)
          /\ ~Contains(l1.ev.uid, "_")
          /\ ~Contains(l2.ev.uid, "_") ) => l1.uid # l2.uid

C7_Witness ==
    \E l1, l2 \in Submitted :
        /\ Tag(l1.src) # Tag(l2.src)
        /\ l1.ev.uid = l2.ev.uid /\ l1.ev.begin = l2.ev.begin
        /\ ~Contains(l1.ev.uid, "_")
        /\ l1.uid # l2.uid

SameIffSameOccurrence ==
    \A l1, l2 \in Submitted :
        l1.src = l2.src =>
            (l1.uid = l2.uid <=>
                (l1.ev.uid = l2.ev.uid /\ l1.ev.begin = l2.ev.begin))

\* C8 as stated: the identifier is tag_id||start with the start as a whole
\* number of seconds, and two events of one source share it iff they share
\* original identifier and start.
C8_Composite ==
    /\ \A l \in Submitted :
         l.uid = Tag(l.src) \o <<"_">> \o l.ev.uid \o <<"|", "|">> \o Digits(l.ev.begin)
    /\ SameIffSameOccurrence

\* C8 amended: the identifier is tag_id||start with the start written as a
\* float ("work_evt1||1700000000.0"), and two events of one source share it
\* iff they share original identifier and start.
C8_CompositeFloat ==
    /\ NewUid(<<"w", "o", "r", "k">>, <<"e", "v", "t", "1">>, 1700000000)
         = <<"w", "o", "r", "k", "_", "e", "v", "t", "1", "|", "|",
             "1", "7", "0", "0", "0", "0", "0", "0", "0", "0", ".", "0">>
    /\ \A l \in Submitted : l.uid = ResolvedIdentifier(Tag(l.src), l.ev)
    /\ SameIffSameOccurrence

C8_Witness ==
    \E l1, l2 \in Submitted :
        /\ l1.src = l2.src
        /\ l1.ev.uid = l2.ev.uid /\ l1.ev.begin # l2.ev.begin
        /\ l1.uid # l2.uid
        /\ {l1.uid, l2.uid} \subseteq MirrorUids

MissingSetting == environ.vars # AllVars
InvalidSyncEvery == environ.SYNC_EVERY = "invalid"

\* C9: with a mandatory setting unset or a SYNC_EVERY that is no duration,
\* the process never gets past the set-up, where it ends with the error, and
\* never starts a network operation.
C9_FailFast ==
    (MissingSetting \/ InvalidSyncEvery) =>
        /\ ~net
        /\ pc \in {"setup", "crashed"}
        /\ pc = "crashed" => error \in {"unset", "sync_every"}

C9_Witness ==
    /\ pc = "crashed" /\ ~net
    /\ error = "sync_every" /\ InvalidSyncEvery
    /\ Len(settings) = Len(MandatoryVars)

\* C10: every delete request issued while source s is reconciled targets an
\* identifier that carries the tag of s.
C10_DeletesOwnSource ==
    \A d \in del_reqs : CarriesTag(d.target, d.src)

\* C11: an event whose submission failed for good has been submitted at
\* least twice in this run before the engine moved on.
C11_Retried ==
    \A l \in log : l.outcome = "failed" => l.attempts >= 2

\* C12: a delete that fails does not end the process: the other deletions
\* and the remaining sources go on.
C12_DeleteContained == ~(pc = "crashed" /\ error = "delete")

\* C13: every delete request of the source being reconciled targets the
\* resource named after the full identifier of a listed event, with ".ics".
C13_TargetsListed ==
    pc = "delete" =>
        \A d \in del_reqs :
            d.src = cur => d.target \in {ResourceName(u) : u \in listed}

\* C14: a source without a live, non-excluded event does not end the run,
\* and the live set its deletion difference uses is empty.
C14_EmptyLiveSet ==
    /\ ~(pc = "crashed" /\ error = "NameError")
    /\ (pc = "delete" /\ ~\E l \in Submitted : l.src = cur) =>
           remote_events_ids = {}

\* the lines of the VEVENT component of a submitted body
VEventLines(body) ==
    LET first == CHOOSE i \in 1..Len(body) : body[i] = "BEGIN:VEVENT"
        last == CHOOSE i \in 1..Len(body) : body[i] = "END:VEVENT"
    IN  {body[i] : i \in first..last}

\* C15: the event of a body passed to save_event has neither an RRULE nor a
\* RECURRENCE-ID line.
C15_NoRecurrence ==
    \A l \in Submitted :
        VEventLines(l.body) \cap {"RRULE", "RECURRENCE-ID"} = {}

\* C16: an event whose title is the ignored name is never submitted, and
\* the mirror never holds the identifier of such an event, whichever source
\* publishes it and whether or not it is over.
C16_IgnoredNeverSubmitted ==
    /\ \A l \in log : l.ev.name = <<"Arvova Dailya">> => l \notin Submitted
    /\ \A s \in 1..NumSources :
         ResolvedIdentifier(Tag(s), EvIgnored) \notin MirrorUids

C16_Witness ==
    /\ pc = "ran"
    /\ \E l1, l2 \in log :
         /\ l1.src = 1 /\ l2.src = 2
         /\ l1.ev.name = <<"Arvova Dailya">> /\ l2.ev.name = <<"Arvova Dailya">>
         /\ l1.at <= l1.ev.end
         /\ l1.outcome = "ignored" /\ l2.outcome = "ignored"

\* an event of the calendar held for source s is the published event, with
\* its title prefixed once if this run has submitted it
FreshEvent(s, e) ==
    \/ e \in upstream[s]
    \/ \E l \in Submitted :
         /\ l.src = s /\ l.ev \in upstream[s]
         /\ e = [l.ev EXCEPT !.name = PrefixedName(Tag(s), l.ev.name)]

\* C17: without SYNC_EVERY the process never sleeps for a second run and
\* exits only after its run; with a valid SYNC_EVERY it never exits; every
\* run starts with an engine that holds nothing and, until it is over,
\* holds and iterates the events as the feeds publish them.
C17_RunScheduling ==
    /\ environ.SYNC_EVERY = "unset" => (pc # "sleep" /\ mirror0 = {})
    /\ pc = "exit" => (environ.SYNC_EVERY = "unset" /\ cur = NumSources
                        /\ to_delete = {} /\ todo = {})
    /\ environ.SYNC_EVERY = "valid" => pc # "exit"
    /\ pc = "connect" => (remote_calendars = <<>> /\ new_uid = Unbound /\ log = {})
    /\ pc # "sleep" =>
         \A s \in 1..Len(remote_calendars) :
             \A e \in remote_calendars[s] : FreshEvent(s, e)
    /\ pc = "events" => todo \subseteq upstream[cur]

C17_Witness ==
    /\ environ.SYNC_EVERY = "valid"
    /\ pc = "ran"
    /\ \E l \in Submitted :
         /\ l.outcome = "saved"
         /\ l.uid \in {m.uid : m \in mirror0}
         /\ l.ev.name = <<"m">>
====
